---- MODULE Spec2Model ----
(***************************************************************************)
(* nativefun/swap: the announcements API route (GET and POST               *)
(* /api/announcements) and the swap form of the Frame.                     *)
(*                                                                         *)
(* Spec         : the announcements route, its requests taken through     *)
(*                their awaits, the Redis cache, the Supabase tables and   *)
(*                the notification webhook.                                *)
(* ConcSpec     : the same route with two POST requests of one Frame load  *)
(*                that interleave at their awaits.                         *)
(* SwapSpec     : the Frame with its Swap tab (sell amount, debounce       *)
(*                timer, price and quote requests, wallet transaction,     *)
(*                transaction dialogs).                                    *)
(* FrameSpec    : the Frame, its tabs and the listeners on the Farcaster   *)
(*                SDK (frameAdded, welcome notification).                  *)
(* HookSpec     : the hook useTokenBalance.                                *)
(* TruncateSpec : the function truncateAddress.                            *)
(***************************************************************************)
EXTENDS Integers, FiniteSets, Sequences, TLC

(***************************************************************************)
(* Bounds of the model.                                                    *)
(***************************************************************************)
MaxToken == 2
MaxAnn == 2
MaxReqs == 2
MaxAmount == 1
MaxInFlight == 2
MaxEvents == 3
MaxAddress == 2
MaxFetches == 2
MaxLen == 11

\* The route keys every read and write by the fid of the request; the model
\* follows the requests of one fid.
Fids == {1}
Tokens == 1..MaxToken
Reqs == 1..MaxReqs

\* JavaScript null / undefined for a number or a token.
Null == -1
NoToken == 0

VARIABLES
  conc,         \* how many requests the server handles at a time
  annCount,     \* announcements table: rows with ids 1..annCount
  lastSeen,     \* Redis: fid -> last seen announcement id, or Null
  cacheTok,     \* Redis: fid -> cached notification token, or NoToken
  dbTok,        \* Supabase notification_tokens: fid -> set of tokens
  req,          \* the requests being handled: slot -> request record
  reported,     \* history: fid -> the token the webhook last reported invalid, NoToken after a registration
  skipped,      \* history: fid -> the announcement ids a write of the last-seen id has passed over
  \* the Frame and its Swap tab
  activeTab,        \* "user" or "swap"; the Swap component is mounted while it is "swap"
  transactionState, \* Frame: "idle", "loading", "success", "error"
  sellAmount,       \* Swap: the sell amount typed, Empty for ""
  buyAmount,        \* Swap: the buy amount of the last price, Empty for ""
  isFinalized,      \* Swap: the swap has been reviewed
  quote,            \* Swap: the stored quote response
  isConnected,      \* wagmi useAccount: a wallet is connected
  timer,            \* Swap: the pending 200 ms timeout and the params it captured
  priceReqs,        \* /api/price requests in flight
  quoteReqs,        \* /api/quote requests in flight
  wallet,           \* wagmi useSendTransaction / useWaitForTransactionReceipt
  txQuote,          \* history: the quote the last sendTransaction call was built from
  priced,           \* history: the sell amounts a price has been received for
  \* the Frame and the Farcaster SDK
  isSDKReady,       \* Frame: the SDK initialisation has completed
  context,          \* Frame: the fid of the stored context; Null while context is null
  sdkInit,          \* Frame: the calls of initializeSDK, "none", "pending" or "done"
  listeners,        \* the listeners registered on the SDK's emitter
  annPosts,         \* history: POST /api/announcements requests the Frame has sent
  clock,            \* Date.now(), advanced by the SDK's events
  welcomePosts,     \* history: the welcome notifications POSTed to /api/notifications
  lastAdded,        \* history: the last frameAdded event and what it POSTed
  \* one use of the hook useTokenBalance(address, tokenAddress)
  address,          \* the hook's address argument, Undefined or a wallet address
  balance,          \* the hook's balance state, NoBalance for null
  isLoading,        \* the hook's isLoading state
  error,            \* the hook's error state: an Error is stored
  fetchBalance,     \* the calls of fetchBalance: slot -> [pc, address]
  \* one call of truncateAddress
  truncArg,         \* the string passed as address
  truncDone,        \* the call has returned
  truncResult       \* the string it returned

annVars == <<conc, annCount, lastSeen, cacheTok, dbTok, req, reported, skipped>>
frameVars == <<isSDKReady, context, sdkInit, annPosts, clock, welcomePosts, lastAdded>>
swapVars ==
  <<activeTab, transactionState, sellAmount, buyAmount, isFinalized, quote,
    isConnected, timer, priceReqs, quoteReqs, wallet, txQuote, priced,
    frameVars, listeners>>
hookVars == <<address, balance, isLoading, error, fetchBalance>>
truncVars == <<truncArg, truncDone, truncResult>>
libVars == <<hookVars, truncVars>>
vars == <<annVars, swapVars, libVars>>

(***************************************************************************)
(* Request bodies: { } , { fid: "n" } , { fid: n }.                        *)
(***************************************************************************)
Bodies ==
  {[kind |-> "missing", fid |-> 0]}
    \cup {[kind |-> k, fid |-> f] : k \in {"string", "number"}, f \in Fids}

\* announcementRequestSchema.safeParse(body).success
SchemaAccepts_mut(body) == body.kind \in {"number", "string"}
SchemaAccepts(body) == body.kind = "number"

\* JavaScript !x for a number or null
Falsy(x) == x = Null \/ x = 0

\* the condition of the if in POST: !lastSeenId || lastSeenId < latestAnnouncement.id
IsNew_mut(lastSeenId, latestId) == Falsy(lastSeenId) \/ lastSeenId <= latestId
IsNew(lastSeenId, latestId) == Falsy(lastSeenId) \/ lastSeenId < latestId

(***************************************************************************)
(* What sendAnnouncementNotification makes of an OK webhook answer whose   *)
(* body has a result: "true", "false" or "throw" (Error 'Rate limited').   *)
(***************************************************************************)
ResultOutcome_mutRate(succ, rl) ==
  IF succ # {} THEN "true" ELSE "false"
ResultOutcome_mutTrue(succ, rl) ==
  IF succ # {} \/ rl = {} THEN "true" ELSE "throw"
ResultOutcome(succ, rl) ==
  IF succ # {} THEN "true"
  ELSE IF rl # {} THEN "throw"
  ELSE "false"

\* no webhook request has been sent
NoSent == [url |-> <<>>, notificationId |-> <<>>, title |-> <<>>, body |-> <<>>, tokens |-> <<>>]

NoResp == [status |-> 0, success |-> FALSE, error |-> "", keys |-> {}]

IdleReq ==
  [pc |-> "idle", method |-> "", bodyKind |-> "", skip |-> FALSE, fid |-> 0, lastSeenId |-> Null,
   latestId |-> Null, token |-> NoToken, succ |-> {}, inv |-> {}, rl |-> {},
   answer |-> "", ops |-> {}, fetches |-> 0, sentTok |-> {}, banned |-> NoToken,
   reused |-> FALSE, rows |-> Null, resp |-> NoResp,
   outcome |-> "", dbBefore |-> {}, cacheBefore |-> NoToken, sent |-> NoSent]

\* Response.json({ success: false, errors }, { status: 400 })
Resp400 == [status |-> 400, success |-> FALSE, error |-> "", keys |-> {"success", "errors"}]
\* Response.json({ success: false, error: 'Rate limited...', lastSeenId, latestAnnouncement }, { status: 429 })
Resp429 ==
  [status |-> 429, success |-> FALSE, error |-> "Rate limited. Please try again later.",
   keys |-> {"success", "error", "lastSeenId", "latestAnnouncement"}]
\* Response.json({ success: true, lastSeenId, latestAnnouncement })
Resp200 ==
  [status |-> 200, success |-> TRUE, error |-> "",
   keys |-> {"success", "lastSeenId", "latestAnnouncement"}]
\* new Response('Internal server error', { status: 500 })
Resp500 == [status |-> 500, success |-> FALSE, error |-> "Internal server error", keys |-> {}]
\* Response.json(announcements)
RespList == [status |-> 200, success |-> FALSE, error |-> "", keys |-> {}]

\* a request is handled in the first free slot
FirstFree(r) ==
  /\ r <= conc
  /\ req[r].pc = "idle"
  /\ \A r2 \in Reqs : r2 < r => req[r2].pc # "idle"

\* A handled request is observed (its record read off) before anything else
\* happens: no action but Retire is taken while some request is done.
Quiet == \A r \in Reqs : req[r].pc # "done"

(***************************************************************************)
(* The environment: announcements are inserted into the Supabase table,    *)
(* and the webhook route registers the token of a fid (frame_added).       *)
(***************************************************************************)
InsertAnnouncement ==
  /\ Quiet
  /\ annCount < MaxAnn
  /\ annCount' = annCount + 1
  /\ UNCHANGED <<swapVars, libVars, skipped, conc, lastSeen, cacheTok, dbTok, req, reported>>

RegisterToken(f, t) ==
  /\ Quiet
  /\ cacheTok' = [cacheTok EXCEPT ![f] = t]
  /\ dbTok' = [dbTok EXCEPT ![f] = @ \cup {t}]
  /\ reported' = [reported EXCEPT ![f] = NoToken]
  /\ req' = [r \in Reqs |-> IF req[r].fid = f THEN [req[r] EXCEPT !.banned = NoToken] ELSE req[r]]
  /\ UNCHANGED <<swapVars, libVars, skipped, conc, annCount, lastSeen>>

(***************************************************************************)
(* GET /api/announcements                                                  *)
(***************************************************************************)
\* what GET answers: getAnnouncements() resolved (ok) or threw
GetAnswer(ok) ==
  [IdleReq EXCEPT !.pc = "done", !.method = "GET", !.ops = {"getAnnouncements"},
                  !.answer = IF ok THEN "rows" ELSE "threw",
                  !.rows = IF ok THEN annCount ELSE Null,
                  !.resp = IF ok THEN RespList ELSE Resp500]

GET_mut(r) ==
  /\ Quiet
  /\ FirstFree(r)
  /\ \E ok \in BOOLEAN : req' = [req EXCEPT ![r] = GetAnswer(ok)]
  /\ lastSeen' = [f \in Fids |-> Null]
  /\ UNCHANGED <<swapVars, libVars, skipped, conc, annCount, cacheTok, dbTok, reported>>
GET(r) ==
  /\ Quiet
  /\ FirstFree(r)
  /\ \E ok \in BOOLEAN : req' = [req EXCEPT ![r] = GetAnswer(ok)]
  /\ UNCHANGED <<swapVars, libVars, skipped, conc, annCount, lastSeen, cacheTok, dbTok, reported>>

(***************************************************************************)
(* POST /api/announcements, one action per await.                          *)
(***************************************************************************)
\* request.json(), safeParse, the 400 answer
POST(r, body, skip) ==
  /\ Quiet
  /\ FirstFree(r)
  /\ req' = [req EXCEPT ![r] =
       IF SchemaAccepts(body)
       THEN [IdleReq EXCEPT !.pc = "getLastSeen", !.method = "POST", !.skip = skip,
                            !.bodyKind = body.kind, !.fid = body.fid,
                            !.banned = reported[body.fid]]
       ELSE [IdleReq EXCEPT !.pc = "done", !.method = "POST", !.skip = skip,
                            !.bodyKind = body.kind, !.resp = Resp400]]
  /\ UNCHANGED <<swapVars, libVars, skipped, conc, annCount, lastSeen, cacheTok, dbTok, reported>>

\* the request after one more call of the route's imports
Op(q, name) == [q EXCEPT !.ops = @ \cup {name}]

\* const lastSeenId = await getLastSeenAnnouncementId(fid)
GetLastSeen(r) ==
  /\ Quiet
  /\ req[r].pc = "getLastSeen"
  /\ \E ok \in BOOLEAN :
       LET q == Op(req[r], "getLastSeen") IN
       req' = [req EXCEPT ![r] =
         IF ok THEN [q EXCEPT !.pc = "getLatest", !.lastSeenId = lastSeen[q.fid]]
         ELSE [q EXCEPT !.pc = "done", !.resp = Resp500]]
  /\ UNCHANGED <<swapVars, libVars, skipped, conc, annCount, lastSeen, cacheTok, dbTok, reported>>

\* const latestAnnouncement = await getLatestAnnouncement(), then the if
GetLatest(r) ==
  /\ Quiet
  /\ req[r].pc = "getLatest"
  /\ \E ok \in BOOLEAN :
       LET q == Op(req[r], "getLatest") IN
       req' = [req EXCEPT ![r] =
         IF ok /\ annCount > 0
         THEN IF IsNew(q.lastSeenId, annCount)
              THEN [q EXCEPT !.pc = "getCached", !.latestId = annCount]
              ELSE [q EXCEPT !.pc = "done", !.resp = Resp200, !.latestId = annCount]
         ELSE [q EXCEPT !.pc = "done", !.resp = Resp500]]
  /\ UNCHANGED <<swapVars, libVars, skipped, conc, annCount, lastSeen, cacheTok, dbTok, reported>>

\* const cached = await getCachedNotificationToken(fid); if (!cached) return false
GetCached(r) ==
  /\ Quiet
  /\ req[r].pc = "getCached"
  /\ \E ok \in BOOLEAN :
       LET q == Op(req[r], "getCached") IN
       req' = [req EXCEPT ![r] =
         IF ~ok THEN [q EXCEPT !.pc = "done", !.resp = Resp500]
         ELSE IF cacheTok[q.fid] = NoToken
              THEN [q EXCEPT !.pc = "done", !.resp = Resp200, !.outcome = "false"]
              ELSE [q EXCEPT !.pc = "fetch", !.token = cacheTok[q.fid]]]
  /\ UNCHANGED <<swapVars, libVars, skipped, conc, annCount, lastSeen, cacheTok, dbTok, reported>>

\* the webhook's possible answers to a request that carries token t
WebhookAnswers(t) ==
  {[kind |-> k, succ |-> {}, inv |-> {}, rl |-> {}] : k \in {"netError", "notOk", "noResult"}}
    \cup {[kind |-> "result", succ |-> s, inv |-> i, rl |-> l] :
            s \in SUBSET {t}, i \in SUBSET Tokens, l \in SUBSET {t}}

\* where the request goes once the result has been read and the cleanup is over
AfterResult(q) ==
  LET out == ResultOutcome(q.succ, q.rl) IN
    IF out = "true" THEN [q EXCEPT !.pc = "setLastSeen", !.outcome = out]
    ELSE IF out = "throw" THEN [q EXCEPT !.pc = "done", !.resp = Resp429, !.outcome = out]
    ELSE [q EXCEPT !.pc = "done", !.resp = Resp200, !.outcome = out]

\* removeNotificationToken(fid): deletes the fid's rows of notification_tokens
RemoveNotificationToken(db, f) == [db EXCEPT ![f] = {}]
\* removeCachedNotificationToken(fid): deletes the fid's cached token
RemoveCachedNotificationToken(cache, f) == [cache EXCEPT ![f] = NoToken]

\* if (invalidTokens?.length > 0), reached when the body has a result
NeedsCleanup_mut(a) == a.kind = "result" /\ a.inv # {} /\ a.succ = {}
NeedsCleanup(a) == a.kind = "result" /\ a.inv # {}

\* the url cached with token t: getCachedNotificationToken returns { token, url }
UrlOf(t) == <<"url", t>>
\* the title and the text of the announcements row with id i
Title(i) == <<"title", i>>
Text(i) == <<"text", i>>
\* notificationId: `announcement:${announcement.id}`
NotificationId_mut(id) == <<"announcement", id, "retry">>
NotificationId(id) == <<"announcement", id>>
\* fetch(url, { method: 'POST', body: JSON.stringify({ notificationId, title,
\* body: announcement.text, targetUrl, tokens: [token] }) })
WebhookRequest(q) ==
  [url |-> UrlOf(q.token), notificationId |-> NotificationId(q.latestId),
   title |-> Title(q.latestId), body |-> Text(q.latestId), tokens |-> <<q.token>>]

\* number of webhook requests one call of sendAnnouncementNotification sends
Sends_mut(a) == IF a.kind = "result" /\ a.succ # {} THEN 1 ELSE 2
Sends(a) == 1

\* The rest of sendAnnouncementNotification: fetch(url, { ..., tokens: [token] }),
\* response.ok, response.json(), result.result, and the cleanup
\* await Promise.all(invalidTokens.map(t => removeInvalidToken(fid, t))), where
\* each removeInvalidToken runs both removals and swallows their errors.
FetchWith(r, answers) ==
  /\ Quiet
  /\ req[r].pc = "fetch"
  /\ \E a \in answers, okDb \in BOOLEAN, okCache \in BOOLEAN :
       LET f == req[r].fid
           clean == NeedsCleanup(a)
           q0 == [Op(req[r], "fetch") EXCEPT
                    !.fetches = @ + Sends(a),
                    !.sentTok = @ \cup {req[r].token},
                    !.reused = (req[r].token = req[r].banned),
                    !.banned = NoToken,
                    !.dbBefore = dbTok[f], !.cacheBefore = cacheTok[f],
                    !.sent = WebhookRequest(req[r]),
                    !.succ = a.succ, !.inv = a.inv, !.rl = a.rl, !.answer = a.kind]
           q == IF clean
                THEN Op(Op(q0, "removeNotificationToken"), "removeCachedNotificationToken")
                ELSE q0
       IN /\ clean \/ (okDb /\ okCache)
          /\ req' = [req EXCEPT ![r] =
                IF a.kind # "result"
                THEN [q EXCEPT !.pc = "done", !.resp = Resp200, !.outcome = "false"]
                ELSE AfterResult(q)]
          /\ dbTok' = IF clean /\ okDb THEN RemoveNotificationToken(dbTok, f) ELSE dbTok
          /\ cacheTok' = IF clean /\ okCache THEN RemoveCachedNotificationToken(cacheTok, f)
                         ELSE cacheTok
          /\ reported' = IF req[r].token \in a.inv
                          THEN [reported EXCEPT ![f] = req[r].token] ELSE reported
  /\ UNCHANGED <<swapVars, libVars, skipped, conc, annCount, lastSeen>>

Fetch(r) == FetchWith(r, WebhookAnswers(req[r].token))

\* the announcement ids strictly between the last-seen id a (none: Null) and id b
Between(a, b) == {i \in 1..MaxAnn : (a = Null \/ a < i) /\ i < b}

\* the id passed to setLastSeenAnnouncementId: latestAnnouncement.id
WrittenId_mut(q) == IF q.lastSeenId = Null THEN 1 ELSE q.lastSeenId + 1
WrittenId(q) == q.latestId

\* if (success) await setLastSeenAnnouncementId(fid, latestAnnouncement.id)
SetLastSeen(r) ==
  /\ Quiet
  /\ req[r].pc = "setLastSeen"
  /\ \E ok \in BOOLEAN :
       /\ lastSeen' = IF ok THEN [lastSeen EXCEPT ![req[r].fid] = WrittenId(req[r])] ELSE lastSeen
       /\ skipped' = IF ok THEN [skipped EXCEPT ![req[r].fid] =
                                  @ \cup Between(lastSeen[req[r].fid], WrittenId(req[r]))]
                     ELSE skipped
       /\ req' = [req EXCEPT ![r] =
            [Op(req[r], "setLastSeen") EXCEPT !.pc = "done",
                                              !.resp = IF ok THEN Resp200 ELSE Resp500]]
  /\ UNCHANGED <<swapVars, libVars, conc, annCount, cacheTok, dbTok, reported>>

\* the response has been delivered; the slot serves the next request
Retire(r) ==
  /\ req[r].pc = "done"
  /\ req' = [req EXCEPT ![r] = IdleReq]
  /\ UNCHANGED <<swapVars, libVars, skipped, conc, annCount, lastSeen, cacheTok, dbTok, reported>>

(***************************************************************************)
(* The Frame (components/frame/index.tsx) and the Farcaster SDK.           *)
(***************************************************************************)
\* context?.user?.fid is undefined
NoFid == 0

\* sdk.on("frameAdded", ...) of the Frame effect; the closure holds the
\* context of the render the effect ran in (fid Null while context is null)
FrameListener(f) == [owner |-> "Frame", fid |-> f]
\* sdk.on("frameAdded", ...) and sdk.on("frameRemoved", ...) of the User effect
UserListener == [owner |-> "User", fid |-> Null]
\* sdk.removeAllListeners(), the cleanup of the Frame effect and of the User effect
RemoveAllListeners == {}

\* what the Frame returns: the loader alone while !isSDKReady, then the tabs
\* and the dialogs whose open prop is true
Rendered_mut ==
  IF ~isSDKReady THEN {"loader"}
  ELSE {"tabs"}
         \cup (IF transactionState \in {"success", "loading"} THEN {"successDialog"} ELSE {})
         \cup (IF transactionState = "error" THEN {"errorDialog"} ELSE {})
Rendered ==
  IF ~isSDKReady THEN {"loader"}
  ELSE {"tabs"}
         \cup (IF transactionState = "success" THEN {"successDialog"} ELSE {})
         \cup (IF transactionState = "error" THEN {"errorDialog"} ELSE {})

\* the body of the welcome notification POSTed by the frameAdded listener
WelcomePost(f, now) == [fid |-> f, notificationId |-> <<"welcome", f, now>>]

\* initializeSDK, call n: await sdk.actions.ready(); await sdk.context (whose
\* user fid is f); setContext; setIsSDKReady(true); the POST to
\* /api/announcements when the fid is known.  The commit that follows runs the
\* cleanups first and the effects next, children before parents: the Frame
\* effect's cleanup and a new run of the effect when context?.user?.fid has
\* changed, the User effect when the tabs are rendered for the first time.
InitializeSDK(n, f) ==
  /\ sdkInit[n] = "pending"
  /\ context \in Fids => f = context
  /\ LET changed == f \in Fids /\ context # f
         kept == IF changed THEN RemoveAllListeners ELSE listeners
         user == IF ~isSDKReady /\ activeTab = "user" THEN {UserListener} ELSE {}
         frame == IF changed THEN {FrameListener(f)} ELSE {}
     IN /\ listeners' = kept \cup user \cup frame
        /\ sdkInit' = [k \in DOMAIN sdkInit |->
                         IF k = n THEN "done"
                         ELSE IF k = n + 1 /\ changed THEN "pending"
                         ELSE sdkInit[k]]
  /\ context' = f
  /\ isSDKReady' = TRUE
  /\ annPosts' = IF f \in Fids THEN annPosts + 1 ELSE annPosts
  /\ UNCHANGED <<annVars, libVars, clock, welcomePosts, lastAdded, activeTab, transactionState,
                 sellAmount, buyAmount, isFinalized, quote, isConnected, timer,
                 priceReqs, quoteReqs, wallet, txQuote, priced>>

\* the SDK emits frameAdded, with notificationDetails or without: every
\* registered listener is called; the Frame's POSTs the welcome notification
\* if (notificationDetails && context?.user?.fid)
FrameAdded(details) ==
  /\ clock < MaxEvents
  /\ clock' = clock + 1
  /\ LET posted == {WelcomePost(l.fid, clock') :
                      l \in {m \in listeners : m.owner = "Frame" /\ m.fid \in Fids /\ details}}
     IN /\ welcomePosts' = welcomePosts \cup posted
        /\ lastAdded' = [details |-> details, fid |-> context, time |-> clock',
                         posted |-> posted]
  /\ UNCHANGED <<annVars, libVars, isSDKReady, context, sdkInit, annPosts, listeners, activeTab,
                 transactionState, sellAmount, buyAmount, isFinalized, quote, isConnected,
                 timer, priceReqs, quoteReqs, wallet, txQuote, priced>>

(***************************************************************************)
(* The Swap tab of the Frame (components/frame/swap.tsx).                  *)
(***************************************************************************)
Empty == 0
Amounts == 1..MaxAmount

NoQuote == [kind |-> "none"]
NoTimer == [on |-> FALSE, sell |-> Empty, buy |-> Empty]

\* the fetch effect: const timeoutId = setTimeout(..., 200), with the params of
\* the render it ran in; its cleanup has cleared the timeout set before
Arm(sell, buy) == [on |-> TRUE, sell |-> sell, buy |-> buy]

\* the confirmation effect: if (isConfirmed) success, else if (error) error
ConfirmEffect_mut(w, ts) ==
  IF w = "confirmed" THEN "success"
  ELSE IF w \in {"error", "reverted"} THEN "error"
  ELSE ts
ConfirmEffect(w, ts) ==
  IF w = "confirmed" THEN "success"
  ELSE IF w = "error" THEN "error"
  ELSE ts

\* disabled={!isConnected || !sellAmount || !buyAmount || isPending || isConfirming}
ButtonEnabled ==
  /\ activeTab = "swap"
  /\ isConnected
  /\ sellAmount # Empty
  /\ buyAmount # Empty
  /\ wallet \notin {"pending", "confirming"}

\* executeSwap: if (quote) { ... }
HasQuote_mut(q) == TRUE
HasQuote(q) == q.kind # "none"

\* the tab changes; TabsContent renders only the active tab, so leaving the
\* swap tab unmounts Swap and coming back mounts a new one
SwitchTab ==
  /\ isSDKReady
  /\ activeTab' = IF activeTab = "user" THEN "swap" ELSE "user"
  /\ listeners' = IF activeTab = "user" THEN RemoveAllListeners ELSE listeners \cup {UserListener}
  /\ sellAmount' = Empty
  /\ buyAmount' = Empty
  /\ isFinalized' = FALSE
  /\ quote' = NoQuote
  /\ timer' = IF activeTab = "user" THEN Arm(Empty, Empty) ELSE NoTimer
  /\ priceReqs' = {}
  /\ quoteReqs' = {}
  /\ wallet' = "none"
  /\ txQuote' = NoQuote
  /\ priced' = {}
  /\ UNCHANGED <<annVars, libVars, frameVars, transactionState, isConnected>>

\* useAccount: the wallet connects or disconnects; address is a dependency of
\* the fetch effect
ToggleConnection ==
  /\ isConnected' = ~isConnected
  /\ timer' = IF activeTab = "swap" THEN Arm(sellAmount, buyAmount) ELSE timer
  /\ UNCHANGED <<annVars, libVars, frameVars, listeners, activeTab, transactionState, sellAmount, buyAmount, isFinalized,
                 quote, priceReqs, quoteReqs, wallet, txQuote, priced>>

\* onChange={(e) => setSellAmount(e.target.value)} and handlePercentageClick
SetSellAmount(a) ==
  /\ activeTab = "swap"
  /\ a # sellAmount
  /\ sellAmount' = a
  /\ timer' = Arm(a, buyAmount)
  /\ transactionState' = ConfirmEffect(wallet, transactionState)
  /\ UNCHANGED <<annVars, libVars, frameVars, listeners, activeTab, buyAmount, isFinalized, quote, isConnected,
                 priceReqs, quoteReqs, wallet, txQuote, priced>>

\* the timeout fires: if (sellAmount !== "") { fetchQuote(params); fetchPrice(params) }
TimerFires ==
  /\ activeTab = "swap"
  /\ timer.on
  /\ timer' = NoTimer
  /\ IF timer.sell # Empty
     THEN /\ quoteReqs' = quoteReqs \cup
                 {[sell |-> timer.sell, priced |-> timer.sell \in priced]}
          /\ priceReqs' = priceReqs \cup {[sell |-> timer.sell]}
          /\ Cardinality(quoteReqs') <= MaxInFlight
          /\ Cardinality(priceReqs') <= MaxInFlight
     ELSE UNCHANGED <<priceReqs, quoteReqs>>
  /\ UNCHANGED <<annVars, libVars, frameVars, listeners, activeTab, transactionState, sellAmount, buyAmount, isFinalized,
                 quote, isConnected, wallet, txQuote, priced>>

\* fetchPrice: the answer of /api/price; b is data.buyAmount (Empty when the
\* answer has none), failed when fetch or response.json() rejected
PriceAnswer(p, b, failed) ==
  /\ activeTab = "swap"
  /\ p \in priceReqs
  /\ priceReqs' = priceReqs \ {p}
  /\ buyAmount' = IF ~failed /\ b # Empty THEN b ELSE buyAmount
  /\ priced' = IF ~failed /\ b # Empty THEN priced \cup {p.sell} ELSE priced
  /\ timer' = IF buyAmount' # buyAmount THEN Arm(sellAmount, buyAmount') ELSE timer
  /\ transactionState' = IF buyAmount' # buyAmount
                         THEN ConfirmEffect(wallet, transactionState)
                         ELSE transactionState
  /\ UNCHANGED <<annVars, libVars, frameVars, listeners, activeTab, sellAmount, isFinalized, quote, isConnected,
                 quoteReqs, wallet, txQuote>>

\* fetchQuote: the answer of /api/quote is stored, whatever it is; finally
\* fetchPrice(params)
QuoteAnswer(q, kind) ==
  /\ activeTab = "swap"
  /\ q \in quoteReqs
  /\ quoteReqs' = quoteReqs \ {q}
  /\ quote' = IF kind = "failed" THEN quote
              ELSE IF kind = "null" THEN NoQuote
              ELSE [kind |-> kind]
  /\ priceReqs' = priceReqs \cup {[sell |-> q.sell]}
  /\ Cardinality(priceReqs') <= MaxInFlight
  /\ UNCHANGED <<annVars, libVars, frameVars, listeners, activeTab, transactionState, sellAmount, buyAmount, isFinalized,
                 isConnected, timer, wallet, txQuote, priced>>

\* the button while it reads "Review Swap": onClick = finalize
Finalize ==
  /\ ButtonEnabled
  /\ ~isFinalized
  /\ isFinalized' = TRUE
  /\ timer' = Arm(sellAmount, buyAmount)
  /\ UNCHANGED <<annVars, libVars, frameVars, listeners, activeTab, transactionState, sellAmount, buyAmount, quote,
                 isConnected, priceReqs, quoteReqs, wallet, txQuote, priced>>

\* the button while it reads "Confirm Swap": onClick = executeSwap. A stored
\* answer without a transaction makes quote.transaction.gas throw after
\* setTransactionState("loading").
ExecuteSwap ==
  /\ ButtonEnabled
  /\ isFinalized
  /\ IF HasQuote(quote)
     THEN /\ transactionState' = "loading"
          /\ IF quote.kind # "error"
             THEN wallet' = "pending" /\ txQuote' = quote
             ELSE UNCHANGED <<wallet, txQuote>>
     ELSE UNCHANGED <<transactionState, wallet, txQuote>>
  /\ UNCHANGED <<annVars, libVars, frameVars, listeners, activeTab, sellAmount, buyAmount, isFinalized, quote,
                 isConnected, timer, priceReqs, quoteReqs, priced>>

\* useSendTransaction / useWaitForTransactionReceipt: the wallet signs or
\* rejects, the receipt arrives or the wait fails; the confirmation effect runs
WalletStep(to) ==
  /\ activeTab = "swap"
  /\ \/ wallet = "pending" /\ to \in {"confirming", "error"}
     \/ wallet = "confirming" /\ to \in {"confirmed", "reverted"}
  /\ wallet' = to
  /\ transactionState' = ConfirmEffect(to, transactionState)
  /\ UNCHANGED <<annVars, libVars, frameVars, listeners, activeTab, sellAmount, buyAmount, isFinalized, quote,
                 isConnected, timer, priceReqs, quoteReqs, txQuote, priced>>

\* resetTransaction: the open dialog is closed
ResetTransaction ==
  /\ Rendered \cap {"successDialog", "errorDialog"} # {}
  /\ transactionState' = "idle"
  /\ UNCHANGED <<annVars, libVars, frameVars, listeners, activeTab, sellAmount, buyAmount, isFinalized, quote,
                 isConnected, timer, priceReqs, quoteReqs, wallet, txQuote, priced>>

SwapInit ==
  /\ activeTab = "user"
  /\ transactionState = "idle"
  /\ sellAmount = Empty
  /\ buyAmount = Empty
  /\ isFinalized = FALSE
  /\ quote = NoQuote
  /\ isConnected = FALSE
  /\ timer = NoTimer
  /\ priceReqs = {}
  /\ quoteReqs = {}
  /\ wallet = "none"
  /\ txQuote = NoQuote
  /\ priced = {}

\* the Frame after its first render and the first run of its effect
FrameInit ==
  /\ isSDKReady = FALSE
  /\ context = Null
  /\ sdkInit = <<"pending", "none">>
  /\ listeners = {FrameListener(Null)}
  /\ annPosts = 0
  /\ clock = 0
  /\ welcomePosts = {}
  /\ lastAdded = [details |-> FALSE, fid |-> Null, time |-> 0, posted |-> {}]

FrameNext ==
  \/ \E n \in DOMAIN sdkInit, f \in Fids \cup {NoFid} : InitializeSDK(n, f)
  \/ SwitchTab
  \/ \E details \in BOOLEAN : FrameAdded(details)

SwapNext ==
  \/ \E n \in DOMAIN sdkInit, f \in Fids \cup {NoFid} : InitializeSDK(n, f)
  \/ SwitchTab
  \/ ToggleConnection
  \/ \E a \in Amounts \cup {Empty} : SetSellAmount(a)
  \/ TimerFires
  \/ \E p \in priceReqs, b \in Amounts \cup {Empty}, failed \in BOOLEAN : PriceAnswer(p, b, failed)
  \/ \E q \in quoteReqs, kind \in {"quote", "error", "null", "failed"} : QuoteAnswer(q, kind)
  \/ Finalize
  \/ ExecuteSwap
  \/ \E to \in {"confirming", "error", "confirmed", "reverted"} : WalletStep(to)
  \/ ResetTransaction

(***************************************************************************)
(* The hook useTokenBalance (lib/hooks/useTokenBalance.ts), for a fixed    *)
(* tokenAddress.                                                           *)
(***************************************************************************)
Undefined == 0
Addresses == 1..MaxAddress
NoBalance == [of |-> Undefined]
NoFetch == [pc |-> "none", address |-> Undefined]
Fetches == 1..MaxFetches

\* if (!address) return
StartsFetch(a) == a # Undefined

\* a call of fetchBalance that has returned leaves its slot to the next call
FreeSlot(i) ==
  /\ fetchBalance[i].pc \in {"none", "done", "failed"}
  /\ \A j \in Fetches : j < i => fetchBalance[j].pc \notin {"none", "done", "failed"}

\* the component re-renders with another address: the effect runs
\* fetchBalance(), which returns at once for an undefined address and
\* otherwise sets isLoading, clears error and awaits getTokenBalances
ChangeAddress(a) ==
  /\ a # address
  /\ address' = a
  /\ IF StartsFetch(a)
     THEN /\ \E i \in Fetches :
               /\ FreeSlot(i)
               /\ fetchBalance' = [fetchBalance EXCEPT ![i] = [pc |-> "balances", address |-> a]]
          /\ isLoading' = TRUE
          /\ error' = FALSE
     ELSE UNCHANGED <<fetchBalance, isLoading, error>>
  /\ UNCHANGED <<annVars, swapVars, truncVars, balance>>

\* catch: setError(...); finally: setIsLoading(false)
Failed(i) ==
  /\ fetchBalance' = [fetchBalance EXCEPT ![i].pc = "failed"]
  /\ error' = TRUE
  /\ isLoading' = FALSE
  /\ UNCHANGED <<annVars, swapVars, truncVars, address, balance>>

\* await alchemy.core.getTokenBalances(address, [tokenAddress]) settles
GetTokenBalances(i, ok) ==
  /\ fetchBalance[i].pc = "balances"
  /\ IF ok
     THEN /\ fetchBalance' = [fetchBalance EXCEPT ![i].pc = "metadata"]
          /\ UNCHANGED <<annVars, swapVars, truncVars, address, balance, isLoading, error>>
     ELSE Failed(i)

\* await alchemy.core.getTokenMetadata(tokenAddress) settles; has: the first
\* entry of balance.tokenBalances exists; setBalance; finally setIsLoading(false)
GetTokenMetadata(i, ok, has) ==
  /\ fetchBalance[i].pc = "metadata"
  /\ IF ok
     THEN /\ fetchBalance' = [fetchBalance EXCEPT ![i].pc = "done"]
          /\ balance' = IF has THEN [of |-> fetchBalance[i].address] ELSE balance
          /\ isLoading' = FALSE
          /\ UNCHANGED <<annVars, swapVars, truncVars, address, error>>
     ELSE Failed(i)

\* useState(null), useState(false), useState(null); the effect has run with
\* an undefined address
HookInit ==
  /\ address = Undefined
  /\ balance = NoBalance
  /\ isLoading = FALSE
  /\ error = FALSE
  /\ fetchBalance = [i \in Fetches |-> NoFetch]

HookNext ==
  \/ \E a \in Addresses \cup {Undefined} : ChangeAddress(a)
  \/ \E i \in Fetches, ok \in BOOLEAN : GetTokenBalances(i, ok)
  \/ \E i \in Fetches, ok \in BOOLEAN, has \in BOOLEAN : GetTokenMetadata(i, ok, has)

AnnInit ==
  /\ conc = 1
  /\ annCount = 0
  /\ lastSeen = [f \in Fids |-> Null]
  /\ cacheTok = [f \in Fids |-> NoToken]
  /\ dbTok = [f \in Fids |-> {}]
  /\ req = [r \in Reqs |-> IdleReq]
  /\ reported = [f \in Fids |-> NoToken]
  /\ skipped = [f \in Fids |-> {}]

(***************************************************************************)
(* truncateAddress (lib/truncateAddress.ts); a string is a sequence of     *)
(* characters.                                                             *)
(***************************************************************************)
Chars == {"a", "b"}
Strings == UNION {[1..n -> Chars] : n \in 0..MaxLen}
Min(a, b) == IF a < b THEN a ELSE b
Max(a, b) == IF a > b THEN a ELSE b

\* String.prototype.slice(from, to): a negative index counts from the end,
\* indices are clamped to 0..length, the characters from..to-1 (0-based)
SliceIndex(s, k) == IF k < 0 THEN Max(Len(s) + k, 0) ELSE Min(k, Len(s))
Slice(s, from, to) == SubSeq(s, SliceIndex(s, from) + 1, SliceIndex(s, to))

\* if (!address) return ""; return `${address.slice(0, 6)}...${address.slice(-4)}`
truncateAddress_mut(a) ==
  IF a = <<>> THEN <<>>
  ELSE Slice(a, 0, 6) \o <<".", ".", ".">> \o Slice(a, 4, Len(a))
truncateAddress(a) ==
  IF a = <<>> THEN <<>>
  ELSE Slice(a, 0, 6) \o <<".", ".", ".">> \o Slice(a, -4, Len(a))

Truncate ==
  /\ ~truncDone
  /\ truncDone' = TRUE
  /\ truncResult' = truncateAddress(truncArg)
  /\ UNCHANGED <<annVars, swapVars, hookVars, truncArg>>

TruncateIdle ==
  /\ truncArg = <<>>
  /\ truncDone = FALSE
  /\ truncResult = <<>>

TruncateInit ==
  /\ AnnInit /\ SwapInit /\ FrameInit /\ HookInit
  /\ truncArg \in Strings
  /\ truncDone = FALSE
  /\ truncResult = <<>>

Init == AnnInit /\ SwapInit /\ FrameInit /\ HookInit /\ TruncateIdle

Next ==
  \/ InsertAnnouncement
  \/ \E f \in Fids, t \in Tokens : RegisterToken(f, t)
  \/ \E r \in Reqs : GET(r)
  \/ \E r \in Reqs, body \in Bodies, skip \in BOOLEAN : POST(r, body, skip)
  \/ \E r \in Reqs : GetLastSeen(r)
  \/ \E r \in Reqs : GetLatest(r)
  \/ \E r \in Reqs : GetCached(r)
  \/ \E r \in Reqs : Fetch(r)
  \/ \E r \in Reqs : SetLastSeen(r)
  \/ \E r \in Reqs : Retire(r)

Spec == Init /\ [][Next]_vars

\* one load of the Frame by a user whose token is registered: the two calls of
\* initializeSDK POST for the same fid, and the two requests overlap
FramePosts == 2
\* the announcements inserted and the id delivered to the fid before the load
ConcInit ==
  /\ conc = FramePosts
  /\ annCount \in 0..MaxAnn
  /\ \E i \in {Null} \cup (1..annCount) : lastSeen = [f \in Fids |-> i]
  /\ cacheTok = [f \in Fids |-> 1]
  /\ dbTok = [f \in Fids |-> {1}]
  /\ req = [r \in Reqs |-> IdleReq]
  /\ reported = [f \in Fids |-> NoToken]
  /\ skipped = [f \in Fids |-> {}]
  /\ SwapInit /\ FrameInit /\ HookInit /\ TruncateIdle

\* the answers of a webhook that names no token but those of the request
ListedAnswers(t) == {a \in WebhookAnswers(t) : a.inv \subseteq {t}}

\* the response reaches the Frame, which awaits it and sends no further request
Close(r) ==
  /\ req[r].pc = "done"
  /\ req' = [req EXCEPT ![r].pc = "closed"]
  /\ UNCHANGED <<swapVars, libVars, skipped, conc, annCount, lastSeen, cacheTok, dbTok, reported>>

ConcNext ==
  \/ InsertAnnouncement
  \/ \E r \in Reqs, f \in Fids : POST(r, [kind |-> "number", fid |-> f], FALSE)
  \/ \E r \in Reqs : GetLastSeen(r)
  \/ \E r \in Reqs : GetLatest(r)
  \/ \E r \in Reqs : GetCached(r)
  \/ \E r \in Reqs : FetchWith(r, ListedAnswers(req[r].token))
  \/ \E r \in Reqs : SetLastSeen(r)
  \/ \E r \in Reqs : Close(r)

ConcSpec == ConcInit /\ [][ConcNext]_vars

SwapSpec == Init /\ [][SwapNext]_vars

FrameSpec == Init /\ [][FrameNext]_vars

HookSpec == Init /\ [][HookNext]_vars

TruncateSpec == TruncateInit /\ [][Truncate]_vars

TypeOK ==
  /\ annCount \in 0..MaxAnn
  /\ \A f \in Fids : lastSeen[f] \in {Null} \cup (1..MaxAnn)
  /\ \A f \in Fids : cacheTok[f] \in Tokens \cup {NoToken}

(***************************************************************************)
(* Claims about the announcements route.                                   *)
(***************************************************************************)
Posts == {r \in Reqs : req[r].method = "POST"}
DonePosts == {r \in Posts : req[r].pc = "done"}
\* the webhook accepted the notification of request r
Accepted(r) == req[r].answer = "result" /\ req[r].succ # {}
WriteOps == {"fetch", "removeNotificationToken", "removeCachedNotificationToken", "setLastSeen"}

\* C1: a POST with a numeric fid calls the webhook only when the fid has no
\* last-seen id or its last-seen id is below the latest announcement's id; when
\* the last-seen id is at least the latest id, the request makes no webhook
\* call, removes no token, leaves the last-seen id alone and answers 200 with
\* success: true.
C1_NotifyOnlyWhenNew ==
  \A r \in Posts :
    /\ req[r].fetches > 0 =>
         req[r].lastSeenId = Null \/ req[r].lastSeenId < req[r].latestId
    /\ (req[r].lastSeenId # Null /\ req[r].latestId # Null
          /\ req[r].lastSeenId >= req[r].latestId) =>
         /\ req[r].pc = "done"
         /\ req[r].fetches = 0
         /\ req[r].ops \cap WriteOps = {}
         /\ lastSeen[req[r].fid] = req[r].lastSeenId
         /\ req[r].resp.status = 200
         /\ req[r].resp.success

C1_Witness ==
  \E r \in DonePosts :
    /\ req[r].lastSeenId # Null
    /\ req[r].lastSeenId >= req[r].latestId
    /\ req[r].latestId # Null
    /\ req[r].resp.status = 200

\* C2: the last-seen id of a fid is written only by a request whose webhook
\* answer listed a successful token, and it is set to the latest id that request
\* read; every other step leaves every last-seen id unchanged.
C2_LastSeenWrittenOnSuccess ==
  [][\A f \in Fids :
       lastSeen'[f] # lastSeen[f] =>
         \E r \in Posts :
           /\ req[r].pc = "setLastSeen"
           /\ req'[r].pc = "done"
           /\ req[r].fid = f
           /\ Accepted(r)
           /\ lastSeen'[f] = req[r].latestId]_vars

C2_Witness ==
  \E r \in DonePosts :
    /\ "setLastSeen" \in req[r].ops
    /\ req[r].resp.status = 200
    /\ lastSeen[req[r].fid] = req[r].latestId
    /\ req[r].lastSeenId # req[r].latestId

\* C3: a token the webhook reported invalid for a fid is not sent again by a
\* later POST for that fid, unless a token was registered for the fid in between.
C3_InvalidTokenNotReused ==
  \A r \in Posts : ~req[r].reused

\* C4: a webhook result with no successful token and a rate-limited token is
\* answered with 429, success: false and the rate-limit error, and the request
\* does not write the last-seen id.
C4_RateLimitedAnswers429 ==
  \A r \in DonePosts :
    (req[r].answer = "result" /\ req[r].succ = {} /\ req[r].rl # {}) =>
      /\ req[r].resp.status = 429
      /\ ~req[r].resp.success
      /\ req[r].resp.error = "Rate limited. Please try again later."
      /\ "setLastSeen" \notin req[r].ops
      /\ lastSeen[req[r].fid] = req[r].lastSeenId

C4_Witness ==
  \E r \in DonePosts :
    /\ req[r].answer = "result"
    /\ req[r].succ = {}
    /\ req[r].rl # {}
    /\ req[r].resp.status = 429

\* C5: a POST that carries X-Skip-Rate-Limit: true is never answered with the
\* 429 'Rate limited' response.
C5_SkipHeaderBypassesRateLimit ==
  \A r \in DonePosts : req[r].skip => req[r].resp.status # 429

\* C6: the route answers 200 only for a request whose notification the webhook
\* accepted.
C6_Status200MeansSent ==
  \A r \in DonePosts : req[r].resp.status = 200 => Accepted(r)

\* C7: a POST whose body has no fid, or a fid that is not a number, is answered
\* with 400 and success: false, and calls none of the cache, table, token-store
\* or webhook operations.
C7_BadBodyAnswers400 ==
  \A r \in Posts :
    req[r].bodyKind # "number" =>
      /\ req[r].pc = "done"
      /\ req[r].resp.status = 400
      /\ ~req[r].resp.success
      /\ req[r].ops = {}
      /\ req[r].fetches = 0

C7_Witness ==
  \E r \in DonePosts :
    /\ req[r].bodyKind = "string"
    /\ req[r].resp.status = 400
    /\ \E f \in Fids : lastSeen[f] # Null /\ cacheTok[f] # NoToken

\* C8: a POST sends at most one webhook request, with exactly one token, the
\* one it read from the cache; no failed or rate-limited delivery is sent twice.
C8_AtMostOneWebhookRequest ==
  \A r \in Posts :
    /\ req[r].fetches <= 1
    /\ req[r].fetches = 1 =>
         /\ req[r].sentTok = {req[r].token}
         /\ req[r].token \in Tokens
         /\ "getCached" \in req[r].ops

C8_Witness ==
  \E r \in DonePosts :
    /\ req[r].fetches = 1
    /\ req[r].answer \in {"netError", "notOk"}

\* C9: GET answers 200 with the announcements it read, or 500 'Internal server
\* error' when the read failed, and no GET step changes a last-seen id or a
\* notification token.
C9_GetReadsOnly ==
  /\ [](\A r \in Reqs :
          req[r].method = "GET" =>
            \/ /\ req[r].answer = "rows"
               /\ req[r].resp.status = 200
               /\ req[r].rows = annCount
            \/ /\ req[r].answer = "threw"
               /\ req[r].resp.status = 500
               /\ req[r].resp.error = "Internal server error")
  /\ [][(\E r \in Reqs : req[r].method # "GET" /\ req'[r].method = "GET") =>
          UNCHANGED <<lastSeen, cacheTok, dbTok>>]_vars

C9_Witness ==
  \E r \in Reqs :
    /\ req[r].method = "GET"
    /\ req[r].resp.status = 200
    /\ req[r].rows > 0
    /\ \E f \in Fids : lastSeen[f] # Null /\ cacheTok[f] # NoToken

(***************************************************************************)
(* Claims about the swap form.                                             *)
(***************************************************************************)
\* C10 (as stated): no /api/quote request is issued before a price has been
\* received for the entered sell amount, and sendTransaction is never called
\* before a quote response has been stored.
C10_PriceThenQuoteThenTransaction ==
  /\ \A q \in quoteReqs : q.priced
  /\ wallet # "none" => txQuote.kind # "none"

\* C10 (amended): a /api/quote request is issued only when the debounce timer
\* fires with a non-empty sell amount, together with the /api/price request for
\* the same amount and without waiting for a price; sendTransaction is never
\* called before a price has been received and a quote response has been stored.
C10_QuoteWithPriceThenTransaction ==
  /\ [](wallet # "none" => (txQuote.kind = "quote" /\ priced # {}))
  /\ [][\A q \in quoteReqs' \ quoteReqs :
          /\ timer.on
          /\ ~timer'.on
          /\ timer.sell # Empty
          /\ q.sell = timer.sell
          /\ [sell |-> q.sell] \in priceReqs']_vars

C10_Witness ==
  /\ wallet = "pending"
  /\ txQuote.kind = "quote"
  /\ transactionState = "loading"

\* C11: price and quote requests are debounced: a change of the sell amount
\* replaces the pending timer by one that holds the new inputs (by none when
\* the form is unmounted), a pending timer
\* always holds the current inputs, and a request is issued only by a timer
\* that fires, with the current inputs and a non-empty sell amount.
C11_RequestsDebounced ==
  /\ [](timer.on => (timer.sell = sellAmount /\ timer.buy = buyAmount))
  /\ [][sellAmount' # sellAmount =>
          IF activeTab' = "swap" THEN timer' = Arm(sellAmount', buyAmount') ELSE ~timer'.on]_vars
  /\ [][\A p \in (priceReqs' \ priceReqs) \cup (quoteReqs' \ quoteReqs) :
          /\ timer.on
          /\ ~timer'.on
          /\ sellAmount # Empty
          /\ p.sell = sellAmount]_vars

\* C12: transactionState is one of idle, loading, success, error; it becomes
\* loading only in an executeSwap step taken with a stored quote, success only
\* in a step after which the receipt is confirmed, error only in a step after
\* which sendTransaction has reported an error, and idle only in a
\* resetTransaction step.
C12_TransactionStateTransitions ==
  /\ [](transactionState \in {"idle", "loading", "success", "error"})
  /\ [][transactionState' # transactionState =>
          /\ transactionState' = "loading" =>
               (ButtonEnabled /\ isFinalized /\ quote.kind # "none")
          /\ transactionState' = "success" => wallet' = "confirmed"
          /\ transactionState' = "error" => wallet' = "error"
          /\ transactionState' = "idle" =>
               (transactionState \in {"success", "error"}
                  /\ UNCHANGED <<sellAmount, buyAmount, wallet, quote, activeTab>>)]_vars

\* a success dialog that was closed has opened again for the same receipt
C12_Witness ==
  /\ transactionState = "success"
  /\ wallet = "confirmed"
  /\ sellAmount = Empty

(***************************************************************************)
(* Claims about the Frame.                                                 *)
(***************************************************************************)
Dialogs == {"successDialog", "errorDialog"}

\* C13: until the SDK initialisation has completed the Frame renders the
\* loading indicator and nothing else, and once it has completed the loading
\* indicator is never rendered again; the success dialog is open exactly when
\* transactionState is success and the error dialog exactly when it is error,
\* never both; closing an open dialog sets transactionState to idle and leaves
\* no dialog open.
C13_LoaderThenDialogs ==
  /\ [](~isSDKReady => Rendered = {"loader"})
  /\ [](isSDKReady => "loader" \notin Rendered)
  /\ [][isSDKReady => isSDKReady']_vars
  /\ []("successDialog" \in Rendered <=> transactionState = "success")
  /\ []("errorDialog" \in Rendered <=> transactionState = "error")
  /\ [](~(Dialogs \subseteq Rendered))
  /\ [][ResetTransaction => (transactionState' = "idle" /\ Rendered' \cap Dialogs = {})]_vars

C13_Witness ==
  /\ isSDKReady
  /\ Rendered = {"tabs", "errorDialog"}
  /\ wallet = "error"

\* C14: when the SDK emits frameAdded with notificationDetails while the Frame
\* holds a context with the user's fid, exactly one welcome notification is
\* POSTed, for that fid, with notificationId welcome:<fid>:<timestamp>.
C14_WelcomeOnFrameAdded ==
  (lastAdded.details /\ lastAdded.fid \in Fids) =>
    lastAdded.posted = {WelcomePost(lastAdded.fid, lastAdded.time)}

(***************************************************************************)
(* Claims about the hooks and utilities.                                   *)
(***************************************************************************)
\* the calls of fetchBalance started, and failed, by the step
Started == {i \in Fetches : fetchBalance'[i].pc = "balances" /\ fetchBalance'[i] # fetchBalance[i]}
JustFailed == {i \in Fetches : fetchBalance'[i].pc = "failed" /\ fetchBalance[i].pc # "failed"}

\* what C15 says of every fetch that is started or fails
FetchSetsState ==
  /\ [][Started # {} => (address' # Undefined /\ isLoading' /\ ~error')]_vars
  /\ [][JustFailed # {} => (error' /\ ~isLoading' /\ balance' = balance)]_vars

\* C15: no fetch is started and isLoading is false while address is
\* undefined; a started fetch sets isLoading and clears error; a failed fetch
\* sets error, clears isLoading and leaves the stored balance unchanged.
C15_NoFetchWithoutAddress ==
  /\ [](address = Undefined => ~isLoading)
  /\ [][address' = Undefined => Started = {}]_vars
  /\ FetchSetsState

\* C16: truncateAddress returns the empty string for the empty address and
\* otherwise the first 6 characters of the address (all of them when it has
\* fewer), then three dots, then its last 4 characters (all of them when it has
\* fewer).
C16_TruncateAddress ==
  truncDone =>
    IF truncArg = <<>> THEN truncResult = <<>>
    ELSE LET n == Len(truncArg)
             h == Min(n, 6)
             t == Min(n, 4)
         IN /\ Len(truncResult) = h + 3 + t
            /\ \A i \in 1..h : truncResult[i] = truncArg[i]
            /\ \A i \in 1..3 : truncResult[h + i] = "."
            /\ \A i \in 1..t : truncResult[h + 3 + i] = truncArg[n - t + i]

\* an address longer than 10 characters whose kept and dropped parts differ
C16_Witness ==
  /\ truncDone
  /\ Len(truncArg) = 11
  /\ truncArg[5] # truncArg[8]
  /\ truncArg[7] # truncArg[11]
  /\ Len(truncResult) = 13

(***************************************************************************)
(* Further claims about the announcements route.                           *)
(***************************************************************************)
\* the webhook answered request r with a result that lists no successful and
\* some rate-limited token
RateLimited(r) == req[r].answer = "result" /\ req[r].succ = {} /\ req[r].rl # {}

\* C17: the JSON body answered by POST has the key successTokens when the
\* notification was sent and the key rateLimitedTokens when the token was rate
\* limited.
C17_BodyNamesTokens ==
  \A r \in DonePosts :
    /\ (Accepted(r) /\ req[r].resp.status = 200) => "successTokens" \in req[r].resp.keys
    /\ RateLimited(r) => "rateLimitedTokens" \in req[r].resp.keys

\* C18: when the webhook result lists invalid tokens, at the end of the request
\* neither the cache nor the table holds a listed token for the fid, and every
\* token that was stored for the fid and is not listed is still stored.
C18_ExactlyListedTokensRemoved ==
  \A r \in DonePosts :
    (req[r].answer = "result" /\ req[r].inv # {}) =>
      LET f == req[r].fid IN
        /\ \A t \in req[r].inv : t \notin dbTok[f] /\ cacheTok[f] # t
        /\ \A t \in req[r].dbBefore \ req[r].inv : t \in dbTok[f]
        /\ req[r].cacheBefore \notin req[r].inv => cacheTok[f] = req[r].cacheBefore

\* C19: sendAnnouncementNotification returns true exactly when the webhook
\* answered OK with a result that lists a successful token; it throws 'Rate
\* limited' only when the result lists no successful and some rate-limited
\* token; and when the result lists invalid tokens both removals have been
\* called by the time it returns or throws.
C19_SendOutcome ==
  \A r \in Posts :
    req[r].outcome # "" =>
      /\ req[r].outcome = "true" <=> Accepted(r)
      /\ req[r].outcome = "throw" => RateLimited(r)
      /\ (req[r].answer = "result" /\ req[r].inv # {}) =>
           {"removeNotificationToken", "removeCachedNotificationToken"} \subseteq req[r].ops

C19_Witness ==
  \E r \in Posts :
    /\ req[r].outcome = "true"
    /\ req[r].inv # {}
    /\ req[r].rl # {}
    /\ "removeCachedNotificationToken" \in req[r].ops

C24_DeliveryAndCursorAtomic ==
  \A r \in DonePosts :
    /\ Accepted(r) =>
         (lastSeen[req[r].fid] = req[r].latestId /\ req[r].resp.status = 200)
    /\ req[r].resp.status = 500 => ~Accepted(r)

\* C25: a load of the Frame sends one POST to /api/announcements when the SDK
\* context has a fid, once its initialisation has completed, and never more
\* than one; it sends none when the context has no fid.
C25_OneAnnouncementCheckPerLoad ==
  /\ annPosts <= 1
  /\ context = NoFid => annPosts = 0
  /\ (context \in Fids /\ \A n \in DOMAIN sdkInit : sdkInit[n] # "pending") => annPosts = 1

(***************************************************************************)
(* Claims about overlapping requests.                                      *)
(***************************************************************************)
\* the requests that have sent their webhook request
Fetched == {r \in Posts : req[r].fetches > 0}

\* C21: the webhook request of a POST goes to the url cached with the token it
\* read and carries notificationId announcement:<id> of the announcement it
\* read, that announcement's title and text, and the one cached token; two
\* requests for the same announcement carry the same notificationId.
C21_WebhookRequestContents ==
  /\ \A r \in Fetched :
       /\ req[r].sent.url = <<"url", req[r].token>>
       /\ req[r].sent.notificationId = <<"announcement", req[r].latestId>>
       /\ req[r].sent.title = <<"title", req[r].latestId>>
       /\ req[r].sent.body = <<"text", req[r].latestId>>
       /\ req[r].sent.tokens = <<req[r].token>>
       /\ req[r].token \in Tokens
  /\ \A r1, r2 \in Fetched :
       req[r1].latestId = req[r2].latestId =>
         req[r1].sent.notificationId = req[r2].sent.notificationId

\* two overlapping requests have sent the webhook request for announcement 2
C21_Witness ==
  \E r1, r2 \in Fetched :
    /\ r1 # r2
    /\ req[r1].latestId = 2
    /\ req[r2].latestId = 2
    /\ req[r1].pc = "setLastSeen"
    /\ req[r2].pc = "setLastSeen"

\* C22: a stored last-seen id is never removed and never replaced by a lower id.
C22_LastSeenNeverDecreases ==
  [][\A f \in Fids :
       lastSeen[f] # Null => (lastSeen'[f] # Null /\ lastSeen'[f] >= lastSeen[f])]_vars

\* C23: no two requests for a fid have had the same announcement accepted by
\* the webhook.
C23_DeliveredAtMostOnce ==
  \A r1, r2 \in Posts :
    (r1 # r2 /\ Accepted(r1) /\ Accepted(r2) /\ req[r1].fid = req[r2].fid) =>
      req[r1].latestId # req[r2].latestId

====
